---- MODULE Spec2Model ----
(***************************************************************************)
(* The 1-D explicit FTCS diffusion notebook (notebooks/diffusion-model).   *)
(*                                                                         *)
(* The notebook is a straight-line script: parameter cells (D, Lx, dx,     *)
(* the initial profile C, C_left, C_right, nt), the time-step cell         *)
(* (dt = 0.5 * (dx**2/D)) and the integration loop.  The parameters are    *)
(* the inputs of a run and are drawn in Init; the time-step cell and each  *)
(* loop iteration are the actions.  Spec draws arbitrary initial fields;   *)
(* LiveSpec, for termination, draws the notebook's step profile and adds   *)
(* that an enabled statement runs.                                         *)
(*                                                                         *)
(* Numbers.  The script computes in binary floating point.  Every input    *)
(* drawn here is a small integer, D and dx are powers of two (or zero, or  *)
(* negated), and the runs are a few steps long, so every intermediate      *)
(* value is a dyadic rational of a few bits and the floating-point result  *)
(* equals the exact one.  Values are therefore exact rationals <<n, d>>    *)
(* in lowest terms with d > 0.  Division by a zero Python scalar raises    *)
(* ZeroDivisionError and is modelled as the failure it is.                 *)
(***************************************************************************)
EXTENDS Integers, Sequences, FiniteSets, TLC

VARIABLES
    D,        \* diffusivity (cell "D = 100")
    dx,       \* grid spacing (cell "dx = 0.5")
    nt,       \* number of time steps
    C_left,   \* fixed left boundary value
    C_right,  \* fixed right boundary value
    C_init,   \* the initial profile, as it was before the loop (history)
    C,        \* the concentration array, mutated in place by the loop
    dt,       \* the time step, NoValue until the time-step cell has run
    t,        \* number of loop iterations completed
    pc,       \* "setup" | "loop" | "done" | "error"
    err       \* the exception that ended the run, or "none"

vars == <<D, dx, nt, C_left, C_right, C_init, C, dt, t, pc, err>>

---------------------------------------------------------------------------
(* Bounds of the model *)

MaxLen == 4      \* longest arbitrary initial field
MaxVal == 1      \* field and boundary values are drawn from 0..MaxVal
MaxSteps == 3    \* nt is drawn from 0..MaxSteps
MaxLx == 4       \* domain lengths of the notebook's own step profile

Ds == {-1, 0, 2}        \* diffusivities: negative, zero, positive
dxs == {-1, 0, 1, 2}    \* spacings: negative, zero, positive

---------------------------------------------------------------------------
(* Exact arithmetic on <<numerator, denominator>> *)

NoValue == <<>>

Abs(n) == IF n < 0 THEN -n ELSE n

\* Each operator below binds its operands once (x, y range over a
\* one-element set), so an operand that is itself a long expression is
\* evaluated a single time.
RECURSIVE GCD(_, _)
GCD(a, b) ==
    CHOOSE g \in {IF y = 0 THEN x ELSE GCD(y, x % y) :
                    <<x, y>> \in {<<a, b>>}} : TRUE

\* n/d in lowest terms with a positive denominator, d # 0
Norm(n, d) ==
    CHOOSE q \in {<<(IF y < 0 THEN -x ELSE x) \div GCD(Abs(x), Abs(y)),
                    Abs(y) \div GCD(Abs(x), Abs(y))>> :
                    <<x, y>> \in {<<n, d>>}} : TRUE

Num(n) == <<n, 1>>

Add(a, b) ==
    CHOOSE q \in {Norm(x[1] * y[2] + y[1] * x[2], x[2] * y[2]) :
                    <<x, y>> \in {<<a, b>>}} : TRUE
Sub(a, b) ==
    CHOOSE q \in {Norm(x[1] * y[2] - y[1] * x[2], x[2] * y[2]) :
                    <<x, y>> \in {<<a, b>>}} : TRUE
Mul(a, b) ==
    CHOOSE q \in {Norm(x[1] * y[1], x[2] * y[2]) :
                    <<x, y>> \in {<<a, b>>}} : TRUE
\* Only used where the divisor is known to be non-zero.
Div(a, b) ==
    CHOOSE q \in {Norm(x[1] * y[2], x[2] * y[1]) :
                    <<x, y>> \in {<<a, b>>}} : TRUE
Leq(a, b) == \E <<x, y>> \in {<<a, b>>} : x[1] * y[2] <= y[1] * x[2]

Half == <<1, 2>>
Two == <<2, 1>>

---------------------------------------------------------------------------
(* The grid and the initial profile (cells "x = np.arange(...)" and       *)
(* "C[x<=Lx//2] = C_left; C[x>Lx//2] = C_right")                          *)

\* len(np.arange(start=0, stop=Lx, step=h)) = max(0, ceil(Lx / h)), h # 0
ArangeLen(Lx, h) ==
    IF h > 0
    THEN (IF Lx > 0 THEN (Lx + h - 1) \div h ELSE 0)
    ELSE (IF Lx < 0 THEN ((-Lx) + (-h) - 1) \div (-h) ELSE 0)

\* x[i] for the 1-based index i
GridX(i, h) == (i - 1) * h

InitialProfile(Lx, h, left, right) ==
    [i \in 1..ArangeLen(Lx, h) |->
        IF GridX(i, h) <= Lx \div 2 THEN Num(left) ELSE Num(right)]

---------------------------------------------------------------------------
(* The time-step cell *)

\* variant: the factor 1, twice the stability limit
StabilityFactor_Unit == <<1, 1>>
\* the literal 0.5 of "dt = 0.5 * (dx**2/D)"
StabilityFactor == Half

Square(h) == h * h

\* dt = 0.5 * (dx**2/D), for d # 0
TimeStep(h, d) == Mul(StabilityFactor, Div(Num(Square(h)), Num(d)))

---------------------------------------------------------------------------
(* The loop body *)

\* variant: both shifts go the same way, whatever k is
Roll_Same(s, k) ==
    [i \in 1..Len(s) |-> s[((i - 1 + 1) % Len(s)) + 1]]
\* np.roll(s, k): element i moves to i + k, wrapping around
Roll(s, k) ==
    [i \in 1..Len(s) |-> s[((i - 1 - k) % Len(s)) + 1]]

\* D * dt / dx**2, for dx # 0
Coefficient(d, tau, h) == Div(Mul(Num(d), tau), Num(Square(h)))

\* variant: a node-by-node sweep that updates in place, so a node reads
\* the already updated value of the neighbour before it
Stencil_Sequential(s, coef) ==
    LET RECURSIVE Sweep(_, _)
        Sweep(u, i) ==
            IF i > Len(u) THEN u
            ELSE LET r == Roll(u, -1)   l == Roll(u, 1)
                 IN  Sweep([u EXCEPT ![i] =
                        Add(u[i], Mul(coef,
                            Add(Sub(r[i], Mul(Two, u[i])), l[i])))], i + 1)
    IN  Sweep(s, 1)
\* C + coef * (np.roll(C, -1) - 2*C + np.roll(C, 1)): numpy builds the whole
\* right-hand side from s, the array as it is, before the in-place addition
Stencil(s, coef) ==
    LET r == Roll(s, -1)
        l == Roll(s, 1)
    IN  [i \in 1..Len(s) |->
            Add(s[i], Mul(coef, Add(Sub(r[i], Mul(Two, s[i])), l[i])))]

\* variant: the right end is not reset
SetBoundaries_LeftOnly(s, left, right) == [s EXCEPT ![1] = Num(left)]
\* C[0] = C_left; C[-1] = C_right, on a non-empty array
SetBoundaries(s, left, right) ==
    [[s EXCEPT ![1] = Num(left)] EXCEPT ![Len(s)] = Num(right)]

\* variant: one iteration too many
RangeHasNext_OffByOne(i, n) == i <= n
\* range(0, nt) still has an element after i iterations
RangeHasNext(i, n) == i < n

---------------------------------------------------------------------------
(* Initial states: the inputs of a run *)

Vals == 0..MaxVal

Fields ==
    UNION {[1..n -> {Num(v) : v \in Vals}] : n \in 0..MaxLen}

InitGeneric ==
    /\ D \in Ds
    /\ dx \in dxs
    /\ nt \in 0..MaxSteps
    /\ C_left \in Vals
    /\ C_right \in Vals
    /\ C_init \in Fields
           \cup {InitialProfile(Lx, dx, C_left, C_right) : Lx \in 1..MaxLx}

\* the worked single-step example: C = [10, 20, 5, 0, 8], D = 1, dx = 1
InitExample ==
    /\ D = 1
    /\ dx = 1
    /\ nt = 1
    /\ C_left = 10
    /\ C_right = 8
    /\ C_init = <<Num(10), Num(20), Num(5), Num(0), Num(8)>>

\* the notebook's own scenario scaled down: the step profile on a domain of
\* length Lx (empty when the spacing is not positive), high on the left
InitNotebook ==
    /\ D \in Ds
    /\ dx \in dxs
    /\ nt \in 0..MaxSteps
    /\ C_left = MaxVal
    /\ C_right = 0
    /\ C_init \in {InitialProfile(Lx, dx, C_left, C_right) : Lx \in 1..MaxLx}

\* the state before the time-step cell runs
Start ==
    /\ C = C_init
    /\ dt = NoValue
    /\ t = 0
    /\ pc = "setup"
    /\ err = "none"

Init == (InitGeneric \/ InitExample) /\ Start

\* the runs whose termination is checked: it depends on D, dx, nt and on
\* whether the array is empty, not on the values in the array
LiveInit == (InitNotebook \/ InitExample) /\ Start

---------------------------------------------------------------------------
(* Actions *)

inputs == <<D, dx, nt, C_left, C_right, C_init>>

\* dt = 0.5 * (dx**2/D)
SelectTimeStep ==
    /\ pc = "setup"
    /\ D # 0
    /\ dt' = TimeStep(dx, D)
    /\ pc' = "loop"
    /\ UNCHANGED <<inputs, C, t, err>>

\* dx**2/D with D = 0 raises ZeroDivisionError
SelectTimeStepFails ==
    /\ pc = "setup"
    /\ D = 0
    /\ pc' = "error"
    /\ err' = "ZeroDivisionError"
    /\ UNCHANGED <<inputs, C, dt, t>>

\* one iteration of the loop body, run to its end
Step ==
    /\ pc = "loop"
    /\ RangeHasNext(t, nt)
    /\ Square(dx) # 0
    /\ Len(C) > 0
    /\ C' = SetBoundaries(Stencil(C, Coefficient(D, dt, dx)), C_left, C_right)
    /\ t' = t + 1
    /\ UNCHANGED <<inputs, dt, pc, err>>

\* D * dt / dx**2 with dx = 0 raises ZeroDivisionError before C is touched
StepDivisionFails ==
    /\ pc = "loop"
    /\ RangeHasNext(t, nt)
    /\ Square(dx) = 0
    /\ pc' = "error"
    /\ err' = "ZeroDivisionError"
    /\ UNCHANGED <<inputs, C, dt, t>>

\* on an empty array the in-place addition does nothing and C[0] = C_left
\* raises IndexError
StepIndexFails ==
    /\ pc = "loop"
    /\ RangeHasNext(t, nt)
    /\ Square(dx) # 0
    /\ Len(C) = 0
    /\ C' = Stencil(C, Coefficient(D, dt, dx))
    /\ pc' = "error"
    /\ err' = "IndexError"
    /\ UNCHANGED <<inputs, dt, t>>

\* range(0, nt) is exhausted: the loop ends and C is the result
LoopExit ==
    /\ pc = "loop"
    /\ ~RangeHasNext(t, nt)
    /\ pc' = "done"
    /\ UNCHANGED <<inputs, C, dt, t, err>>

Next ==
    \/ SelectTimeStep
    \/ SelectTimeStepFails
    \/ Step
    \/ StepDivisionFails
    \/ StepIndexFails
    \/ LoopExit

Spec == Init /\ [][Next]_vars

\* The notebook runs its cells to the end: an enabled statement executes.
LiveSpec == LiveInit /\ [][Next]_vars /\ WF_vars(Next)

---------------------------------------------------------------------------
(* Vocabulary of the properties *)

\* The discretized diffusion equation as the notebook states it:
\* C(t+1, x) = C(t, x) + (D dt / dx^2) (C(t, x+1) - 2 C(t, x) + C(t, x-1))
FTCS(cm, c, cp, coef) == Add(c, Mul(coef, Add(Sub(cp, Mul(Two, c)), cm)))

\* an iteration of the loop body has just completed
StepCompleted == t' = t + 1

Interior(s) == 2..(Len(s) - 1)

BoundariesHold(s) ==
    /\ s[1] = Num(C_left)
    /\ s[Len(s)] = Num(C_right)

Symmetric(s) == \A i \in 1..Len(s) : s[i] = s[Len(s) + 1 - i]

NonIncreasing(s) == \A i \in 1..(Len(s) - 1) : Leq(s[i + 1], s[i])

\* the initial field is the notebook's step profile on some domain length
IsStepProfile ==
    /\ dx # 0
    /\ \E Lx \in 1..MaxLx : C_init = InitialProfile(Lx, dx, C_left, C_right)

ValidInput == D > 0 /\ dx > 0 /\ Len(C_init) >= 2

\* the values the run starts from: the initial field and both boundary values
Pool == {C_init[j] : j \in 1..Len(C_init)} \cup {Num(C_left), Num(C_right)}

WithinInitialRange(s) ==
    \A i \in 1..Len(s) :
        /\ \E lo \in Pool : Leq(lo, s[i])
        /\ \E hi \in Pool : Leq(s[i], hi)

ExampleRun ==
    /\ C_init = <<Num(10), Num(20), Num(5), Num(0), Num(8)>>
    /\ D = 1 /\ dx = 1 /\ C_left = 10 /\ C_right = 8

---------------------------------------------------------------------------
(* C1: for an initial field of at least 2 nodes, after every completed    *)
(* iteration of the loop (t >= 1), not only the last, the first entry is   *)
(* C_left and the last entry is C_right, whatever the initial ends were.   *)
C1_BoundaryAfterEveryStep ==
    (Len(C_init) >= 2 /\ t >= 1) => (Len(C) = Len(C_init) /\ BoundariesHold(C))

\* mid-run, after two iterations, on a field whose ends both started wrong
C1_Witness ==
    /\ Len(C_init) >= 3
    /\ C_init[1] # Num(C_left)
    /\ C_init[Len(C_init)] # Num(C_right)
    /\ t = 2 /\ nt > 2 /\ pc = "loop"
    /\ BoundariesHold(C)

(* C2: with nt = 0 and an initial field of at least 2 nodes, the field     *)
(* handed to the caller has C_left first, C_right last, and the initial    *)
(* values at every interior index.  (Stated for positive D and dx, so that *)
(* nothing else about the input is in question.)                           *)
C2_ZeroStepBoundaries ==
    (pc = "done" /\ nt = 0 /\ ValidInput) =>
        /\ Len(C) = Len(C_init)
        /\ BoundariesHold(C)
        /\ \A i \in Interior(C) : C[i] = C_init[i]

(* C3: a completed iteration maps C to C' with, at every interior index i, *)
(* C'[i] = C[i] + (D dt/dx^2)(C[i+1] - 2 C[i] + C[i-1]), all three read    *)
(* from the array as it was before the iteration; and the worked example   *)
(* [10, 20, 5, 0, 8] with D = 1, dx = 1, dt = 1/2 gives                    *)
(* [10, 7.5, 10, 6.5, 8].                                                  *)
C3_InteriorFromSnapshot ==
    /\ [][StepCompleted =>
            \A i \in Interior(C) :
                C'[i] = FTCS(C[i - 1], C[i], C[i + 1],
                             Div(Mul(Num(D), dt), Num(dx * dx)))]_vars
    /\ []((ExampleRun /\ t = 1) =>
            /\ dt = <<1, 2>>
            /\ C = <<Num(10), <<15, 2>>, Num(10), <<13, 2>>, Num(8)>>)

\* the worked example after its single step
C3_Witness == ExampleRun /\ t = 1 /\ C[2] = <<15, 2>> /\ pc = "done"

(* C4: on valid input the run reaches its finished state, and whenever it  *)
(* is finished exactly nt iterations have completed; the counter only      *)
(* moves by one completed iteration at a time.                             *)
C4_ExactlyNtSteps ==
    /\ ValidInput => <>(pc = "done" /\ t = nt)
    /\ [](pc = "done" => t = nt)
    /\ [][t' = t \/ (t' = t + 1 /\ t < nt)]_vars

C4_Witness == ValidInput /\ pc = "done" /\ t = nt /\ nt >= 2 /\ C # C_init

(* C5: if dx <= 0 or D <= 0 the run fails before any step: no iteration    *)
(* ever completes, the field is never updated and the run never finishes   *)
(* normally.  (Stated for fields of at least 2 nodes and nt >= 1, so that  *)
(* nothing else about the input is in question and a step is asked for.)   *)
C5_RejectsNonPositive ==
    ((D <= 0 \/ dx <= 0) /\ Len(C_init) >= 2 /\ nt >= 1) =>
        (t = 0 /\ C = C_init /\ pc # "done")

(* C6: an initial field of fewer than 2 nodes makes the run fail; it never *)
(* finishes normally with a field.  (Stated for positive D and dx and      *)
(* nt >= 1, so that nothing else about the input is in question and a step *)
(* is asked for.)                                                          *)
C6_RejectsShortField ==
    (Len(C_init) < 2 /\ D > 0 /\ dx > 0 /\ nt >= 1) => pc # "done"

(* C7: if the initial field is symmetric about its midpoint and            *)
(* C_left = C_right, the field is symmetric after any number of steps.     *)
C7_SymmetryPreserved ==
    (Symmetric(C_init) /\ C_left = C_right) => Symmetric(C)

\* a symmetric, non-flat field that two steps have changed
C7_Witness ==
    /\ Symmetric(C_init) /\ C_left = C_right
    /\ Len(C) >= 4 /\ t >= 2
    /\ C[2] # C[1] /\ C[2] # C_init[2]
    /\ Symmetric(C)

(* C8: from the step profile with C_left >= C_right and the selector's dt, *)
(* the field is non-increasing from left to right at every step.           *)
C8_StepProfileMonotone ==
    (IsStepProfile /\ C_left >= C_right) => NonIncreasing(C)

\* a step profile that has spread into a strictly decreasing interior
C8_Witness ==
    /\ IsStepProfile /\ C_left > C_right
    /\ Len(C) >= 4 /\ t >= 2
    /\ C[2] # C[1] /\ C[3] # C[2] /\ C[3] # C[4]
    /\ NonIncreasing(C)

(* C9: for every field length n >= 2 the loop body (wraparound shifts on   *)
(* all n nodes, then both ends overwritten) yields exactly the field of    *)
(* the interior-only step: the equation at indices 2..n-1 of the old       *)
(* field, C_left first, C_right last; nothing wrapped survives.            *)
C9_WraparoundEqualsInteriorOnly ==
    [][(StepCompleted /\ Len(C) >= 2) =>
        C' = [i \in 1..Len(C) |->
                IF i = 1 THEN Num(C_left)
                ELSE IF i = Len(C) THEN Num(C_right)
                ELSE FTCS(C[i - 1], C[i], C[i + 1],
                          Div(Mul(Num(D), dt), Num(dx * dx)))]]_vars

\* a step on 2 or 3 nodes whose wrapped neighbours differ from the ends
C9_Witness ==
    /\ Len(C) \in {2, 3} /\ t >= 1
    /\ C_init[1] # C_init[Len(C_init)]
    /\ C_init[1] # Num(C_left)
    /\ BoundariesHold(C)

(* C10: with the selector's dt every completed iteration replaces each     *)
(* interior value by the mean of its two old neighbours, and every entry   *)
(* of the field stays between the least and the greatest of the initial    *)
(* field values, C_left and C_right.                                       *)
C10_NoOvershoot ==
    /\ [](WithinInitialRange(C))
    /\ [][StepCompleted =>
            \A i \in Interior(C) :
                C'[i] = Mul(<<1, 2>>, Add(C[i - 1], C[i + 1]))]_vars

\* an interior value strictly inside the range after two steps
C10_Witness ==
    /\ t >= 2 /\ Len(C) >= 3
    /\ C[2] \notin Pool
    /\ WithinInitialRange(C)

====
